---- MODULE Spec2Model ----
(***************************************************************************)
(* Model of the fastener toolkit (fastener_toolkit.py), of the preload     *)
(* sweep of main.py and of the best-preload selection of visualizer.py.    *)
(*                                                                         *)
(* Python floats are IEEE-754 binary64 numbers.  They are modelled         *)
(* bit-exactly: a finite float is [neg, m, e] with value (-1)^neg * m *    *)
(* 2^e, where the significand m is a natural number below 2^53 held as a   *)
(* little-endian sequence of base-2^15 limbs (TLC's integers are 32 bits   *)
(* wide), m is odd or zero, and every operation rounds its exact result    *)
(* to nearest, ties to even.  The exponent range is not modelled: the      *)
(* inputs of the model keep every value far from overflow and underflow.   *)
(*                                                                         *)
(* Intermediate values are passed as operator arguments rather than bound  *)
(* by LET, so that every expression of the model is written once.          *)
(***************************************************************************)
EXTENDS Integers, Sequences, FiniteSets, TLC

(***************************************************************************)
(* Natural numbers of any size: little-endian limbs, no leading zero limb. *)
(***************************************************************************)
LimbBits == 15
Base == 32768

RECURSIVE Pow2(_)
Pow2(n) == IF n = 0 THEN 1 ELSE 2 * Pow2(n - 1)

RECURSIVE BNorm(_)
BNorm(a) ==
    IF a = <<>> THEN <<>>
    ELSE IF a[Len(a)] = 0 THEN BNorm(SubSeq(a, 1, Len(a) - 1))
    ELSE a

BFromInt(n) ==
    IF n = 0 THEN <<>>
    ELSE IF n < Base THEN <<n>>
    ELSE IF n < Base * Base THEN <<n % Base, n \div Base>>
    ELSE <<n % Base, (n \div Base) % Base, n \div (Base * Base)>>

RECURSIVE BAddC(_, _, _)
BAddC(a, b, carry) ==
    IF a = <<>> /\ b = <<>> THEN (IF carry = 0 THEN <<>> ELSE <<carry>>)
    ELSE LET t == (IF a = <<>> THEN 0 ELSE a[1]) + (IF b = <<>> THEN 0 ELSE b[1]) + carry
         IN  <<t % Base>> \o BAddC(IF a = <<>> THEN a ELSE Tail(a),
                                   IF b = <<>> THEN b ELSE Tail(b),
                                   t \div Base)

BAdd(a, b) == BAddC(a, b, 0)

\* a - b for a >= b
RECURSIVE BSubB(_, _, _)
BSubB(a, b, borrow) ==
    IF a = <<>> THEN <<>>
    ELSE LET t == a[1] - (IF b = <<>> THEN 0 ELSE b[1]) - borrow
         IN  <<IF t < 0 THEN t + Base ELSE t>>
             \o BSubB(Tail(a), IF b = <<>> THEN b ELSE Tail(b),
                      IF t < 0 THEN 1 ELSE 0)

BSub(a, b) == BNorm(BSubB(a, b, 0))

\* -1, 0, 1 as a < b, a = b, a > b
RECURSIVE BCmpFrom(_, _, _)
BCmpFrom(a, b, i) ==
    IF i = 0 THEN 0
    ELSE IF a[i] < b[i] THEN -1
    ELSE IF a[i] > b[i] THEN 1
    ELSE BCmpFrom(a, b, i - 1)

BCmp(a, b) ==
    IF Len(a) < Len(b) THEN -1
    ELSE IF Len(a) > Len(b) THEN 1
    ELSE BCmpFrom(a, b, Len(a))

\* a * k for 0 <= k < Base
RECURSIVE BMulSmallC(_, _, _)
BMulSmallC(a, k, carry) ==
    IF a = <<>> THEN (IF carry = 0 THEN <<>> ELSE <<carry>>)
    ELSE <<(a[1] * k + carry) % Base>>
         \o BMulSmallC(Tail(a), k, (a[1] * k + carry) \div Base)

BMulSmall(a, k) == IF k = 0 THEN <<>> ELSE BMulSmallC(a, k, 0)

BShlLimbs(a, n) == IF a = <<>> THEN <<>> ELSE [i \in 1..n |-> 0] \o a

RECURSIVE BMul(_, _)
BMul(a, b) ==
    IF a = <<>> \/ b = <<>> THEN <<>>
    ELSE BAdd(BMulSmall(a, b[1]), BShlLimbs(BMul(a, Tail(b)), 1))

\* a * 2^s
BShl(a, s) == BShlLimbs(BMulSmall(a, Pow2(s % LimbBits)), s \div LimbBits)

\* floor(a / k) for 0 < k < Base, from the top limb down
RECURSIVE BDivSmallR(_, _, _, _)
BDivSmallR(a, k, i, rem) ==
    IF i = 0 THEN <<>>
    ELSE BDivSmallR(a, k, i - 1, (rem * Base + a[i]) % k) \o <<(rem * Base + a[i]) \div k>>

BDivSmall(a, k) == BNorm(BDivSmallR(a, k, Len(a), 0))

\* floor(a / 2^s)
BShr(a, s) ==
    IF s \div LimbBits >= Len(a) THEN <<>>
    ELSE BDivSmall(SubSeq(a, s \div LimbBits + 1, Len(a)), Pow2(s % LimbBits))

RECURSIVE IntBitLen(_)
IntBitLen(n) == IF n = 0 THEN 0 ELSE 1 + IntBitLen(n \div 2)

BBitLen(a) == IF a = <<>> THEN 0 ELSE LimbBits * (Len(a) - 1) + IntBitLen(a[Len(a)])

RECURSIVE IntTrailingZeros(_)
IntTrailingZeros(n) == IF n % 2 = 1 THEN 0 ELSE 1 + IntTrailingZeros(n \div 2)

\* the number of trailing zero bits of a > 0
RECURSIVE BTrailingZeros(_)
BTrailingZeros(a) ==
    IF a[1] = 0 THEN LimbBits + BTrailingZeros(Tail(a))
    ELSE IntTrailingZeros(a[1])

\* the quotient digit of r by d: the largest t <= guess with d * t <= r
RECURSIVE BDivDigit(_, _, _)
BDivDigit(r, d, guess) ==
    IF BCmp(BMulSmall(d, guess), r) > 0 THEN BDivDigit(r, d, guess - 1) ELSE guess

\* the guess of the quotient digit from the top limbs of r and d (Len(r) is at
\* most Len(d) + 1): with the top limb of d at least Base / 2, it is at most 2
\* above the digit
BDivGuess(r, d) ==
    LET top == IF Len(r) < Len(d) THEN 0
               ELSE (IF Len(r) > Len(d) THEN r[Len(d) + 1] * Base ELSE 0) + r[Len(d)]
    IN  IF top \div d[Len(d)] >= Base THEN Base - 1 ELSE top \div d[Len(d)]

\* long division by limbs: the limbs i, i - 1, ..., 1 of n are brought down to the
\* remainder r, and the quotient digits go in front of q
RECURSIVE BDivLimbs(_, _, _, _, _)
BDivTake(n, d, i, q, r, t) ==
    BDivLimbs(n, d, i - 1, <<t>> \o q, BSub(r, BMulSmall(d, t)))

BDivBring(n, d, i, q, r) == BDivTake(n, d, i, q, r, BDivDigit(r, d, BDivGuess(r, d)))

BDivLimbs(n, d, i, q, r) ==
    IF i = 0 THEN <<BNorm(q), r>>
    ELSE BDivBring(n, d, i, q, BNorm(<<n[i]>> \o r))

\* <<floor(n / d), n % d>> for d > 0 with top limb at least Base / 2
BDivMod(n, d) == BDivLimbs(n, d, Len(n), <<>>, <<>>)

\* <<floor(n * 2^k / d), a remainder that is <<>> if there is none>> for n > 0,
\* d > 0: both are shifted to bring the top limb of d to at least Base / 2
BDivShifted(n, d, k) ==
    BDivMod(BShl(n, k + LimbBits - IntBitLen(d[Len(d)])),
            BShl(d, LimbBits - IntBitLen(d[Len(d)])))

(***************************************************************************)
(* binary64                                                                *)
(***************************************************************************)
MantBits == 53

FZero == [neg |-> FALSE, m |-> <<>>, e |-> 0]

\* the float (-1)^neg * m * 2^e for m > 0 with z trailing zero bits and at most
\* 53 bits besides
FStrip(neg, m, e, z) == [neg |-> neg, m |-> BShr(m, z), e |-> e + z]

\* the float (-1)^neg * m * 2^e for m below 2^53 times a power of 2
FCanon(neg, m, e) ==
    IF m = <<>> THEN FZero ELSE FStrip(neg, m, e, BTrailingZeros(m))

\* q is a significand of 54 bits, its last the guard bit, and low tells that the
\* exact value is above q: q to the nearest even multiple of 2, ties to even
FNearest(q, low) ==
    IF q[1] % 2 = 0 THEN q
    ELSE IF low \/ (q[1] \div 2) % 2 = 1 THEN BAdd(q, <<1>>)
    ELSE [q EXCEPT ![1] = @ - 1]

\* m * 2^e with the sh >= 1 low bits of m rounded away
FRoundAway(neg, m, e, sticky, sh) ==
    FCanon(neg, FNearest(BShr(m, sh - 1), sticky \/ BTrailingZeros(m) < sh - 1), e + sh - 1)

\* (-1)^neg * (m * 2^e + a positive amount below 2^e if sticky) rounded to
\* nearest, ties to even; a sticky m has at least 55 bits
FRound(neg, m, e, sticky) ==
    IF BBitLen(m) <= MantBits THEN FCanon(neg, m, e)
    ELSE FRoundAway(neg, m, e, sticky, BBitLen(m) - MantBits)

FFromInt(n) == FCanon(n < 0, BFromInt(IF n < 0 THEN 0 - n ELSE n), 0)

FNeg(a) == IF a.m = <<>> THEN a ELSE [a EXCEPT !.neg = ~a.neg]

\* -1, 0, 1 as |a| < |b|, |a| = |b|, |a| > |b|, for a # 0 and b # 0 whose top
\* bits have the places ta and tb
FCmpTop(a, b, ta, tb) ==
    IF ta < tb THEN -1
    ELSE IF ta > tb THEN 1
    ELSE BCmp(BShl(a.m, IF a.e > b.e THEN a.e - b.e ELSE 0),
              BShl(b.m, IF b.e > a.e THEN b.e - a.e ELSE 0))

FCmpMag(a, b) ==
    IF a.m = <<>> \/ b.m = <<>>
    THEN (IF a.m = b.m THEN 0 ELSE IF a.m = <<>> THEN -1 ELSE 1)
    ELSE FCmpTop(a, b, BBitLen(a.m) + a.e, BBitLen(b.m) + b.e)

FCmp(a, b) ==
    IF a.neg # b.neg THEN (IF a.neg THEN -1 ELSE 1)
    ELSE (IF a.neg THEN -1 ELSE 1) * FCmpMag(a, b)

FLt(a, b) == FCmp(a, b) < 0
FLe(a, b) == FCmp(a, b) <= 0
FGt(a, b) == FCmp(a, b) > 0
FGe(a, b) == FCmp(a, b) >= 0

\* the sum of (-1)^na * ma * 2^e and (-1)^nb * mb * 2^e, where c is BCmp(ma, mb)
FAddAligned(na, ma, nb, mb, e, c) ==
    FRound(IF na = nb \/ c >= 0 THEN na ELSE nb,
           IF na = nb THEN BAdd(ma, mb)
           ELSE IF c >= 0 THEN BSub(ma, mb) ELSE BSub(mb, ma),
           e, FALSE)

FAddAt(a, b, e) ==
    FAddAligned(a.neg, BShl(a.m, a.e - e), b.neg, BShl(b.m, b.e - e), e,
                BCmp(BShl(a.m, a.e - e), BShl(b.m, b.e - e)))

FAdd(a, b) ==
    IF a.m = <<>> THEN b
    ELSE IF b.m = <<>> THEN a
    ELSE FAddAt(a, b, IF a.e < b.e THEN a.e ELSE b.e)

FSub(a, b) == FAdd(a, FNeg(b))

FMul(a, b) == FRound(a.neg # b.neg, BMul(a.m, b.m), a.e + b.e, FALSE)

\* the quotient qr[1] of the significands, with qr[2] its remainder
FQuotient(neg, qr, e) == FRound(neg, qr[1], e, qr[2] # <<>>)

\* a / b for b # 0, from the quotient of a.m * 2^k by b.m, which has at least 55 bits
FDivBy(a, b, k) == FQuotient(a.neg # b.neg, BDivShifted(a.m, b.m, k), a.e - b.e - k)

FDiv(a, b) ==
    IF a.m = <<>> THEN FZero
    ELSE FDivBy(a, b, IF MantBits + 3 + BBitLen(b.m) - BBitLen(a.m) > 0
                      THEN MantBits + 3 + BBitLen(b.m) - BBitLen(a.m) ELSE 0)

\* the float a decimal literal n / d denotes (n, d integers)
Dec(n, d) == FDiv(FFromInt(n), FFromInt(d))

\* math.pi = 0x1.921fb54442d18p+1
MathPi == [neg |-> FALSE, m |-> <<1443, 21777, 4349, 25>>, e |-> -48]

FAbs(a) == [a EXCEPT !.neg = FALSE]

\* a ** n for an integer n >= 1: the exact power, rounded once (libm's pow is
\* taken as correctly rounded)
RECURSIVE BPow(_, _)
BPow(a, n) == IF n = 1 THEN a ELSE BMul(a, BPow(a, n - 1))

FPow(a, n) == FRound(a.neg /\ n % 2 = 1, BPow(a.m, n), a.e * n, FALSE)

RECURSIVE BToInt(_)
BToInt(a) == IF a = <<>> THEN 0 ELSE a[1] + Base * BToInt(Tail(a))

\* math.ceil of a float 0 <= a < 2^30, as an integer
FCeil(a) ==
    IF a.m = <<>> THEN 0
    ELSE IF a.e >= 0 THEN BToInt(BShl(a.m, a.e))
    ELSE BToInt(BShr(a.m, 0 - a.e)) + 1      \* m is odd: a is no integer

(***************************************************************************)
(* Python values.  A number is a float (a Python int is the float of the   *)
(* same value: every int of the model is far below 2^53); None; a numpy    *)
(* array [id, v]: v its elements, id the caller's array it is (a view of), *)
(* or 0 for an array allocated by the callee; an exception [exc].  An      *)
(* operation on what raised is never reached: it gives the exception.      *)
(***************************************************************************)
PyNone == [none |-> TRUE]

Raise(name) == [exc |-> name]

IsRaise(x) == DOMAIN x = {"exc"}

IsArray(x) == DOMAIN x = {"id", "v"}

NewArray(v) == [id |-> 0, v |-> v]

\* what numpy's division by zero yields (inf or nan, with a warning)
NonFinite == [nonfinite |-> TRUE]

\* element i of an operand, a scalar broadcast
Elem(x, i) == IF IsArray(x) THEN x.v[i] ELSE x

Extent(x, y) == IF IsArray(x) THEN Len(x.v) ELSE IF IsArray(y) THEN Len(y.v) ELSE 1

\* Shaped as it would be if an operation wrote its result into its left operand
\* (x op= y for x = x op y); C9 does not hold of it
ShapedInPlace(x, y, v) ==
    IF IsArray(x) THEN [id |-> x.id, v |-> v]
    ELSE IF IsArray(y) THEN NewArray(v)
    ELSE v[1]

Shaped(x, y, v) == IF IsArray(x) \/ IsArray(y) THEN NewArray(v) ELSE v[1]

\* a binary operation on floats and numpy arrays: elementwise on arrays
Elementwise(Op(_, _), x, y) ==
    IF IsRaise(x) THEN x
    ELSE IF IsRaise(y) THEN y
    ELSE IF x = PyNone \/ y = PyNone THEN Raise("TypeError")
    ELSE Shaped(x, y, [i \in 1..Extent(x, y) |-> Op(Elem(x, i), Elem(y, i))])

Add(x, y) == Elementwise(FAdd, x, y)
Sub(x, y) == Elementwise(FSub, x, y)
Mul(x, y) == Elementwise(FMul, x, y)

NpDiv(a, b) == IF b = FZero THEN NonFinite ELSE FDiv(a, b)

\* x / y: float division raises on a zero divisor, numpy's does not
Div(x, y) ==
    IF y = FZero /\ DOMAIN x = DOMAIN FZero THEN Raise("ZeroDivisionError")
    ELSE Elementwise(NpDiv, x, y)

\* x ** n for a float x and an int n >= 1
Pow(x, n) == IF IsRaise(x) THEN x ELSE FPow(x, n)

\* an augmented assignment to x of the value p, with the caller's arrays h: <<the
\* value x names afterwards, the caller's arrays afterwards>>.  An array is
\* written in place, and a view of a caller's array writes through to it; a
\* float is rebound.
InPlace(x, p, h) ==
    IF IsArray(x)
    THEN <<[id |-> x.id, v |-> p.v], IF x.id = 0 THEN h ELSE [h EXCEPT ![x.id] = p.v]>>
    ELSE <<p, h>>

\* x *= y
IMul(x, y, h) == InPlace(x, Mul(x, y), h)

\* x /= y
IDiv(x, y, h) == InPlace(x, Div(x, y), h)

(***************************************************************************)
(* fastener_toolkit.py                                                     *)
(***************************************************************************)
\* the rows [j, p0, p1, p2, p3] of the Cornwell table as the module builds it
CornwellTable ==
    << <<Dec(1, 10),    Dec(4389, 10000), Dec(-9197, 10000),  Dec(8901, 10000),  Dec(-3187, 10000)>>,
       <<Dec(2, 10),    Dec(6118, 10000), Dec(-11715, 10000), Dec(10875, 10000), Dec(-3806, 10000)>>,
       <<Dec(3, 10),    Dec(6932, 10000), Dec(-12426, 10000), Dec(11177, 10000), Dec(-3845, 10000)>>,
       <<Dec(4, 10),    Dec(7351, 10000), Dec(-12612, 10000), Dec(11111, 10000), Dec(-3779, 10000)>>,
       <<Dec(5, 10),    Dec(758, 1000),   Dec(-12632, 10000), Dec(10979, 10000), Dec(-3708, 10000)>>,
       <<Dec(6, 10),    Dec(7709, 10000), Dec(-12600, 10000), Dec(10851, 10000), Dec(-3647, 10000)>>,
       <<Dec(7, 10),    Dec(7773, 10000), Dec(-12543, 10000), Dec(10735, 10000), Dec(-3595, 10000)>>,
       <<Dec(8, 10),    Dec(78, 100),     Dec(-12503, 10000), Dec(10672, 10000), Dec(-3571, 10000)>>,
       <<Dec(9, 10),    Dec(7797, 10000), Dec(-12458, 10000), Dec(1062, 1000),   Dec(-3552, 10000)>>,
       <<Dec(10, 10),   Dec(7774, 10000), Dec(-12413, 10000), Dec(10577, 10000), Dec(-3537, 10000)>>,
       <<Dec(125, 100), Dec(7667, 10000), Dec(-12333, 10000), Dec(10548, 10000), Dec(-3535, 10000)>>,
       <<Dec(15, 10),   Dec(7518, 10000), Dec(-12264, 10000), Dec(10554, 10000), Dec(-3550, 10000)>>,
       <<Dec(175, 100), Dec(735, 1000),   Dec(-12202, 10000), Dec(10581, 10000), Dec(-3574, 10000)>>,
       <<Dec(200, 100), Dec(7175, 10000), Dec(-12133, 10000), Dec(10604, 10000), Dec(-3596, 10000)>> >>

\* the columns of the table
ColJ == 1
ColP0 == 2
ColP1 == 3
ColP2 == 4
ColP3 == 5

\* lines 44-48: d_pitch, from the pitch if there is one and else from num_threads
pitch_diameter(d_major, pitch, num_threads) ==
    IF pitch # PyNone THEN Sub(d_major, Mul(Dec(649519, 1000000), pitch))
    ELSE Sub(d_major, Div(Dec(649519, 1000000), num_threads))

get_tensile_stress_area(d_major, d_minor, pitch, num_threads) ==
    Mul(Div(MathPi, FFromInt(4)),
        Pow(Div(Add(pitch_diameter(d_major, pitch, num_threads), d_minor), FFromInt(2)), 2))

get_bolt_stiffness(a_ts, a_cs, l_unthreaded, l_threaded, E_b) ==
    Div(Mul(Mul(a_ts, a_cs), E_b),
        Add(Mul(a_cs, l_threaded), Mul(a_ts, l_unthreaded)))

bound_val(val, limits) ==
    IF FLt(val, limits[1]) THEN limits[1]
    ELSE IF FGt(val, limits[2]) THEN limits[2]
    ELSE val

\* linterp without its first branch; C2 does not hold of it
linterp_sloped(x1, x2, y1, y2, x3) ==
    Add(Mul(Sub(x3, x1), Div(Sub(y2, y1), Sub(x2, x1))), y1)

linterp(x1, x2, y1, y2, x3) ==
    IF x2 = x1 THEN y1
    ELSE Add(Mul(Sub(x3, x1), Div(Sub(y2, y1), Sub(x2, x1))), y1)

\* float(T.loc[T["j"] == j][col]): float() takes a Series of one row only
TableValue(T, j, col) ==
    IF Cardinality({i \in 1..Len(T) : T[i][ColJ] = j}) # 1 THEN Raise("TypeError")
    ELSE T[CHOOSE i \in 1..Len(T) : T[i][ColJ] = j][col]

\* T[T['j'] >= x].iloc[0, 0]
FirstAtLeast(T, x) ==
    IF \A i \in 1..Len(T) : ~FGe(T[i][ColJ], x) THEN Raise("IndexError")
    ELSE T[CHOOSE i \in 1..Len(T) :
               FGe(T[i][ColJ], x) /\ \A k \in 1..(i - 1) : ~FGe(T[k][ColJ], x)][ColJ]

\* T[T['j'] <= x].iloc[-1, 0]
LastAtMost(T, x) ==
    IF \A i \in 1..Len(T) : ~FLe(T[i][ColJ], x) THEN Raise("IndexError")
    ELSE T[CHOOSE i \in 1..Len(T) :
               FLe(T[i][ColJ], x) /\ \A k \in (i + 1)..Len(T) : ~FLe(T[k][ColJ], x)][ColJ]

\* LowerBracket without the rule for the tail; C10 does not hold of it
LowerBracketEverywhere(T, j, j_2) == LastAtMost(T, Add(j, Dec(1, 100)))

\* lines 82-85: j_1, with no interpolation in the tail of the table
LowerBracket(T, j, j_2) ==
    IF FGt(j_2, Dec(175, 100)) THEN j_2
    ELSE LastAtMost(T, Add(j, Dec(1, 100)))

\* line 106 and the return: the local variables of get_joint_constant at its
\* return, or the first exception of lines 91-106
JointLocals(j, j_1, j_2, p_0, p_1, p_2, p_3, r, c) ==
    IF IsRaise(p_0) THEN p_0
    ELSE IF IsRaise(p_1) THEN p_1
    ELSE IF IsRaise(p_2) THEN p_2
    ELSE IF IsRaise(p_3) THEN p_3
    ELSE IF IsRaise(r) THEN r
    ELSE [j |-> j, j_1 |-> j_1, j_2 |-> j_2,
          p_0 |-> p_0, p_1 |-> p_1, p_2 |-> p_2, p_3 |-> p_3, r |-> r, c |-> c]

\* line 106
JointPolynomial(j, j_1, j_2, p_0, p_1, p_2, p_3, r) ==
    JointLocals(j, j_1, j_2, p_0, p_1, p_2, p_3, r,
                Add(Add(Add(Mul(p_3, Pow(r, 3)), Mul(p_2, Pow(r, 2))), Mul(p_1, r)), p_0))

\* lines 91-104
JointInterpolate(T, j, j_1, j_2, E_m, E_b) ==
    JointPolynomial(j, j_1, j_2,
        linterp(j_1, j_2, TableValue(T, j_1, ColP0), TableValue(T, j_2, ColP0), j),
        linterp(j_1, j_2, TableValue(T, j_1, ColP1), TableValue(T, j_2, ColP1), j),
        linterp(j_1, j_2, TableValue(T, j_1, ColP2), TableValue(T, j_2, ColP2), j),
        linterp(j_1, j_2, TableValue(T, j_1, ColP3), TableValue(T, j_2, ColP3), j),
        Div(E_m, E_b))

\* lines 88-89
JointBound(T, j, j_1, j_2, E_m, E_b) ==
    IF IsRaise(j_1) THEN j_1
    ELSE JointInterpolate(T, j, bound_val(j_1, <<Dec(1, 10), FFromInt(2)>>),
                          bound_val(j_2, <<Dec(1, 10), FFromInt(2)>>), E_m, E_b)

\* lines 82-85
JointLower(T, j, j_2, E_m, E_b) ==
    IF IsRaise(j_2) THEN j_2
    ELSE JointBound(T, j, LowerBracket(T, j, j_2), j_2, E_m, E_b)

\* line 79
JointUpper(T, j, E_m, E_b) ==
    IF IsRaise(j) THEN j
    ELSE JointLower(T, j, FirstAtLeast(T, Sub(j, Dec(1, 100))), E_m, E_b)

\* the local variables of get_joint_constant at its return (it returns c), or
\* what it raises
get_joint_constant(T, d_b, l, E_m, E_b) == JointUpper(T, Div(d_b, l), E_m, E_b)

\* segregate_loads with the two loads in the other order; C1 does not hold of it
segregate_loads_member_first(c, load) ==
    <<Mul(Sub(FFromInt(1), c), load), Mul(c, load)>>

segregate_loads(c, load) == <<Mul(c, load), Mul(Sub(FFromInt(1), c), load)>>

bolt_yield_safety_factor(c, load, preload, a_ts, b_ys) ==
    Div(b_ys, Div(Add(segregate_loads(c, load)[1], preload), a_ts))

joint_separation_safety_factor(c, load, preload) ==
    Div(Div(preload, Sub(FFromInt(1), c)), load)

\* line 221: the elements of a numpy array are numpy.float64, whose division
\* does not raise
MeanStressDivision(x, y, numpy) ==
    IF numpy /\ y = FZero THEN NonFinite ELSE Div(x, y)

\* det_mean_stress_concentration_factor with equality taken into its first
\* branch; C3 does not hold of it
det_mean_stress_concentration_factor_merged(sigma_mean, sigma_alt, s_y, k_f, numpy) ==
    IF FLe(FMul(k_f, FAdd(sigma_mean, sigma_alt)), s_y) THEN k_f
    ELSE MeanStressDivision(FSub(s_y, FMul(k_f, sigma_alt)), sigma_mean, numpy)

\* sigma_mean and sigma_alt are floats in the scalar call, and numpy.float64
\* elements (numpy) in the loop over an array
det_mean_stress_concentration_factor(sigma_mean, sigma_alt, s_y, k_f, numpy) ==
    IF FLt(FMul(k_f, FAdd(sigma_mean, sigma_alt)), s_y) THEN k_f
    ELSE IF FGt(FMul(k_f, FAdd(sigma_mean, sigma_alt)), s_y)
    THEN MeanStressDivision(FSub(s_y, FMul(k_f, sigma_alt)), sigma_mean, numpy)
    ELSE FZero

\* lines 196-198, the loop over range(0, len(sigma_mean)): k_fm after the
\* iterations i, i + 1, ..., len(sigma_mean) - 1 (Python's indices are from 0)
RECURSIVE k_fm_loop(_, _, _, _, _, _)
k_fm_loop(k_fm, i, sigma_mean, sigma_alt, s_y, k_f) ==
    IF i >= Len(sigma_mean.v) THEN k_fm
    ELSE k_fm_loop([k_fm EXCEPT ![i + 1] =
                        det_mean_stress_concentration_factor(
                            sigma_mean.v[i + 1], sigma_alt.v[i + 1], s_y, k_f, TRUE)],
                   i + 1, sigma_mean, sigma_alt, s_y, k_f)

\* stress_concentration_factor with the two thread forms exchanged; C6 does not
\* hold of it
stress_concentration_factor_exchanged(d, ISO) ==
    IF ISO THEN Add(Dec(57, 10), Mul(Dec(6812, 10000), d))
    ELSE Add(Dec(57, 10), Mul(Dec(2682, 100000), d))

\* lines 187-191
stress_concentration_factor(d, ISO) ==
    IF ISO THEN Add(Dec(57, 10), Mul(Dec(2682, 100000), d))
    ELSE Add(Dec(57, 10), Mul(Dec(6812, 10000), d))

\* lines 193-198
mean_stress_concentration_factor(sigma_mean, sigma_alt, s_y, k_f) ==
    IF ~IsArray(sigma_mean)
    THEN det_mean_stress_concentration_factor(sigma_mean, sigma_alt, s_y, k_f, FALSE)
    ELSE NewArray(k_fm_loop([i \in 1..Len(sigma_mean.v) |-> FZero], 0,
                            sigma_mean, sigma_alt, s_y, k_f))

\* line 205, with mean, preload and alt the outcomes <<value, caller's arrays>>
\* of lines 200, 201 and 202
Goodman(s_ut, s_end, mean, preload, alt) ==
    <<Div(Mul(s_end, Sub(s_ut, preload[1])),
          Add(Mul(s_end, Sub(mean[1], preload[1])), Mul(s_ut, alt[1]))),
      alt[2]>>

\* line 202
FatigueAlt(s_ut, s_end, sigma_alt, k_f, mean, preload) ==
    Goodman(s_ut, s_end, mean, preload, IMul(sigma_alt, k_f, preload[2]))

\* line 201
FatiguePreload(s_ut, s_end, sigma_alt, sigma_preload, k_f, k_fm, mean) ==
    FatigueAlt(s_ut, s_end, sigma_alt, k_f, mean, IMul(sigma_preload, k_fm, mean[2]))

\* line 200, or the exception of line 194
FatigueMean(s_ut, s_end, sigma_mean, sigma_alt, sigma_preload, k_f, k_fm, h) ==
    IF IsRaise(k_fm) THEN <<k_fm, h>>
    ELSE FatiguePreload(s_ut, s_end, sigma_alt, sigma_preload, k_f, k_fm,
                        IMul(sigma_mean, k_fm, h))

\* lines 193-198, or the exception of line 182
FatigueFactors(s_ut, s_end, s_y, sigma_mean, sigma_alt, sigma_preload, k_f, h) ==
    IF IsRaise(sigma_mean) THEN <<sigma_mean, h>>
    ELSE FatigueMean(s_ut, s_end, sigma_mean, sigma_alt, sigma_preload, k_f,
                     mean_stress_concentration_factor(sigma_mean, sigma_alt, s_y, k_f), h)

\* lines 179-191
FatigueStresses(d, preload, a_ts, s_ut, s_end, s_y, ISO, f_b_max, f_b_min, h) ==
    FatigueFactors(s_ut, s_end, s_y,
                   Div(Div(Add(f_b_max, f_b_min), FFromInt(2)), a_ts),
                   Div(Div(Sub(f_b_max, f_b_min), FFromInt(2)), a_ts),
                   Div(preload, a_ts),
                   stress_concentration_factor(d, ISO), h)

\* <<n_f or what the call raises, the caller's arrays h afterwards>>
fatigue_safety_factor(d, c, max_load, min_load, preload, a_ts, s_ut, s_end, s_y, ISO, h) ==
    FatigueStresses(d, preload, a_ts, s_ut, s_end, s_y, ISO,
                    Add(segregate_loads(c, max_load)[1], preload),
                    Add(segregate_loads(c, min_load)[1], preload), h)

(***************************************************************************)
(* main.py and visualizer.py: the results array of the preload sweep, held *)
(* by columns                                                              *)
(***************************************************************************)
\* the caller's arrays: results[:, 0..4] of sample_case are the arrays 1..5,
\* and 6 and 7 are a preload array and a load array of a caller of the toolkit
ColPreload == 1
ColYield == 2
ColSeparation == 3
ColFatigue == 4
ColMinimum == 5
CallerPreloads == 6
CallerLoads == 7

\* results[:, id], or a caller's array: the array itself, not a copy
View(h, id) == [id |-> id, v |-> h[id]]

FMin(a, b) == IF FLt(b, a) THEN b ELSE a
FMax(a, b) == IF FGt(b, a) THEN b ELSE a

\* np.amax of a non-empty array
RECURSIVE Amax(_)
Amax(v) == IF Len(v) = 1 THEN v[1] ELSE FMax(v[1], Amax(Tail(v)))

\* np.amin(results[:, 1:4], 1): the minimum along each row
RowMinimum(h) ==
    [i \in 1..Len(h[ColPreload]) |->
        FMin(FMin(h[ColYield][i], h[ColSeparation][i]), h[ColFatigue][i])]

\* the last index where the first is meant; C8 does not hold of it
LastIndex(col, x) ==
    CHOOSE i \in 1..Len(col) : col[i] = x /\ \A k \in (i + 1)..Len(col) : col[k] # x

\* np.where(col == x)[0][0]
FirstIndex(col, x) ==
    CHOOSE i \in 1..Len(col) : col[i] = x /\ \A k \in 1..(i - 1) : col[k] # x

\* results[np.where(results[:, 4] == np.amax(results[:, 4]))[0][0], 0]
BestPreload(h) == h[ColPreload][FirstIndex(h[ColMinimum], Amax(h[ColMinimum]))]

\* np.arange(0, stop, step): ceil(stop / step) values i * step
Arange(stop, step) ==
    [i \in 1..FCeil(FDiv(stop, step)) |-> FMul(FFromInt(i - 1), step)]

\* lines 55-56 of visualizer.py: results[:, 0] /= y, then results[:, 0] *= 100
ProofPercentage(h, y) ==
    IMul(View(IDiv(View(h, ColPreload), y, h)[2], ColPreload), FFromInt(100),
         IDiv(View(h, ColPreload), y, h)[2])[2]

(***************************************************************************)
(* The state: the module-level table, the caller's arrays, and the last    *)
(* call with what it returned or raised.                                   *)
(***************************************************************************)
VARIABLES
    CORNWELL_PARAMS,  \* the table of fastener_toolkit.py
    heap,             \* the caller's arrays, by identity
    pc,               \* "ready", "returned", or the position in sample_case
    call,             \* the last call: [fn, args]
    ret,              \* what it gave: [raised, val]
    frame,            \* the local variables of get_joint_constant at its return
    sweep             \* the local variables of sample_case and of the plots

vars == <<CORNWELL_PARAMS, heap, pc, call, ret, frame, sweep>>

\* bounds of the model
ArrayLen == 2        \* the length of the caller's preload and load arrays
NumSamples == 3      \* num_samples of sample_case (1000 in main.py)

NoCall == [fn |-> "none", args |-> <<>>]
NoRet == [raised |-> FALSE, val |-> PyNone]
NoFrame == [none |-> TRUE]
NoSweep == [none |-> TRUE]

Outcome(x) == IF IsRaise(x) THEN [raised |-> TRUE, val |-> x.exc]
              ELSE [raised |-> FALSE, val |-> x]

\* the material and the bolt of sample_case and of test_safety_factors
S_END == FFromInt(25726)
S_UT == FFromInt(120000)
B_YS == FFromInt(92000)
S_P == FFromInt(80000)
BoltD == Dec(5, 16)
BoltArea == get_tensile_stress_area(BoltD, Dec(24033, 100000), PyNone, FFromInt(18))

\* the next float above a in [1, 4)
NextUp(a) == FAdd(a, [neg |-> FALSE, m |-> <<1>>, e |-> IF FLt(a, FFromInt(2)) THEN -52 ELSE -51])

\* inputs of the calls
JointConstants == {FFromInt(0), Dec(9056, 100000), Dec(3, 10), Dec(1, 2), FFromInt(1)}
Loads == {FFromInt(0), FFromInt(3), FFromInt(1000)}
JHundredths == {5, 8, 9, 10, 11, 15, 19, 20, 21, 27, 30, 40, 50, 60, 70, 80, 90, 100, 110, 125,
                150, 160, 174, 175, 176, 177, 190, 199, 200, 201, 202, 250}
BoltDiameters ==
    {Dec(k, 100) : k \in JHundredths} \cup {NextUp(Dec(k, 100)) : k \in {176, 201}} \cup {BoltD}
Moduli == {<<30000000, 30000000>>, <<15000000, 30000000>>}

Init ==
    /\ CORNWELL_PARAMS = CornwellTable
    /\ heap = [id \in 1..CallerLoads |->
                 IF id = CallerPreloads THEN [i \in 1..ArrayLen |-> FFromInt(3511 * i - 3011)]
                 ELSE IF id = CallerLoads THEN [i \in 1..ArrayLen |-> FFromInt(750 + 250 * i)]
                 ELSE <<>>]
    /\ pc = "ready"
    /\ call = NoCall
    /\ ret = NoRet
    /\ frame = NoFrame
    /\ sweep = NoSweep

\* a call returns the value val, or raises it, and leaves the caller's arrays h
Returns(fn, args, val, h) ==
    /\ pc = "ready"
    /\ pc' = "returned"
    /\ call' = [fn |-> fn, args |-> args]
    /\ ret' = val
    /\ heap' = h
    /\ UNCHANGED <<CORNWELL_PARAMS, sweep>>

Call_get_tensile_stress_area ==
    \E d_major \in {Dec(5, 10), BoltD}, d_minor \in {FFromInt(3), Dec(24033, 100000)},
       pitch \in {PyNone, Dec(239, 100)}, num_threads \in {PyNone, FFromInt(18), FFromInt(0)} :
        /\ Returns("get_tensile_stress_area", <<d_major, d_minor, pitch, num_threads>>,
                   Outcome(get_tensile_stress_area(d_major, d_minor, pitch, num_threads)), heap)
        /\ frame' = NoFrame

Call_get_bolt_stiffness ==
    \E a_ts \in {BoltArea, Dec(52431, 1000000)}, a_cs \in {Dec(76699, 1000000), FFromInt(0)},
       l_unthreaded \in {FFromInt(1), Dec(1625, 1000)}, l_threaded \in {FFromInt(2), FFromInt(0)} :
        /\ Returns("get_bolt_stiffness", <<a_ts, a_cs, l_unthreaded, l_threaded, FFromInt(30000000)>>,
                   Outcome(get_bolt_stiffness(a_ts, a_cs, l_unthreaded, l_threaded,
                                              FFromInt(30000000))), heap)
        /\ frame' = NoFrame

\* get_joint_constant returns c of its local variables, which frame keeps
ReturnsLocals(args, locals) ==
    /\ Returns("get_joint_constant", args,
               Outcome(IF IsRaise(locals) THEN locals ELSE locals.c), heap)
    /\ frame' = IF IsRaise(locals) THEN NoFrame ELSE locals

Call_get_joint_constant ==
    \E d_b \in BoltDiameters, l \in {FFromInt(1), FFromInt(3)}, E \in Moduli :
        ReturnsLocals(<<d_b, l, FFromInt(E[1]), FFromInt(E[2])>>,
                      get_joint_constant(CORNWELL_PARAMS, d_b, l, FFromInt(E[1]), FFromInt(E[2])))

\* The array calls of the model take no zero divisor before their last division:
\* numpy's inf and nan are modelled where they come out, not as operands.
Call_segregate_loads ==
    \E c \in JointConstants, load \in Loads \cup {View(heap, CallerLoads)} :
        /\ Returns("segregate_loads", <<c, load>>,
                   [raised |-> FALSE, val |-> segregate_loads(c, load)], heap)
        /\ frame' = NoFrame

Call_bolt_yield_safety_factor ==
    \E c \in JointConstants, load \in {FFromInt(0), FFromInt(1000), View(heap, CallerLoads)},
       preload \in {FFromInt(0), FFromInt(4011), View(heap, CallerPreloads)},
       a_ts \in {BoltArea, FFromInt(0)} :
        /\ (IsArray(load) \/ IsArray(preload)) => a_ts # FZero
        /\ Returns("bolt_yield_safety_factor", <<c, load, preload, a_ts, B_YS>>,
                   Outcome(bolt_yield_safety_factor(c, load, preload, a_ts, B_YS)), heap)
        /\ frame' = NoFrame

Call_joint_separation_safety_factor ==
    \E c \in JointConstants, load \in {FFromInt(0), FFromInt(1000), View(heap, CallerLoads)},
       preload \in {FFromInt(0), FFromInt(4011), View(heap, CallerPreloads)} :
        /\ IsArray(preload) => c # FFromInt(1)
        /\ Returns("joint_separation_safety_factor", <<c, load, preload>>,
                   Outcome(joint_separation_safety_factor(c, load, preload)), heap)
        /\ frame' = NoFrame

\* fatigue_safety_factor gives out: <<n_f or what it raises, the caller's arrays>>
ReturnsFatigue(args, out) ==
    /\ Returns("fatigue_safety_factor", args, Outcome(out[1]), out[2])
    /\ frame' = NoFrame

\* the loads <<max_load, min_load>> of the calls of fatigue_safety_factor: the
\* last is a joint with no external load
LoadRanges(h) ==
    {<<FFromInt(1000), FFromInt(0)>>, <<FFromInt(1000), FFromInt(500)>>,
     <<View(h, CallerLoads), FFromInt(0)>>, <<View(h, CallerLoads), FFromInt(500)>>,
     <<FFromInt(0), FFromInt(0)>>}

Call_fatigue_safety_factor ==
    \E c \in {Dec(9056, 100000), Dec(3, 10)}, load \in LoadRanges(heap),
       preload \in {FFromInt(500), FFromInt(4011), View(heap, CallerPreloads)},
       a_ts \in {BoltArea, FFromInt(0)}, ISO \in BOOLEAN :
        /\ (IsArray(load[1]) \/ IsArray(preload)) => a_ts # FZero
        /\ ReturnsFatigue(<<BoltD, c, load[1], load[2], preload, a_ts, S_UT, S_END, B_YS, ISO>>,
                          fatigue_safety_factor(BoltD, c, load[1], load[2], preload, a_ts,
                                                S_UT, S_END, B_YS, ISO, heap))

Call_det_mean_stress_concentration_factor ==
    \E sigma_mean \in {FFromInt(0), FFromInt(1), Dec(15, 10), FFromInt(3)},
       sigma_alt \in {FFromInt(0), FFromInt(1), FFromInt(2)},
       s_y \in {FFromInt(4), FFromInt(6)}, k_f \in {FFromInt(2), Dec(57, 10)} :
        /\ Returns("det_mean_stress_concentration_factor", <<sigma_mean, sigma_alt, s_y, k_f>>,
                   Outcome(det_mean_stress_concentration_factor(sigma_mean, sigma_alt, s_y, k_f,
                                                                FALSE)), heap)
        /\ frame' = NoFrame

\* the caller takes the result and is ready for its next call
Resume ==
    /\ pc = "returned"
    /\ pc' = "ready"
    /\ call' = NoCall
    /\ ret' = NoRet
    /\ frame' = NoFrame
    /\ UNCHANGED <<CORNWELL_PARAMS, heap, sweep>>

(***************************************************************************)
(* sample_case of main.py, a step for each of its statements that touches  *)
(* results, then the two plots of visualizer.py that read results.  The    *)
(* joint diagram of line 53 takes scalars only and is no step here.        *)
(***************************************************************************)
MaxLoadApp == FFromInt(1000)
MinLoadApp == FFromInt(0)

\* lines 20-43: the joint constant, the stiffness, and results with its preloads
SampleCaseStart ==
    \E max_preload \in {FFromInt(4456), FFromInt(900)} :
        /\ pc = "ready"
        /\ pc' = "sweep_yield"
        /\ sweep' = [a_ts |-> BoltArea,
                     c |-> get_joint_constant(CORNWELL_PARAMS, BoltD, FFromInt(3),
                                              FFromInt(30000000), FFromInt(30000000)).c,
                     k_b |-> get_bolt_stiffness(BoltArea,
                                                Mul(MathPi, Pow(Div(BoltD, FFromInt(2)), 2)),
                                                Sub(FFromInt(3), FFromInt(2)), FFromInt(2),
                                                FFromInt(30000000)),
                     best_preload |-> PyNone, plot |-> PyNone]
        /\ heap' = [id \in DOMAIN heap |->
                      IF id = ColPreload
                      THEN Arange(max_preload, Div(max_preload, FFromInt(NumSamples)))
                      ELSE IF id <= ColMinimum THEN [i \in 1..NumSamples |-> FZero]
                      ELSE heap[id]]
        /\ Len(heap'[ColPreload]) = NumSamples      \* or np.vstack raises ValueError
        /\ UNCHANGED <<CORNWELL_PARAMS, call, ret, frame>>

\* a statement results[:, col] = <a call on results[:, 0]>: the call, which
\* leaves the caller's arrays h, then the assignment of what it returns
SweepAssign(at, next, col, fn, args, val, h) ==
    /\ pc = at
    /\ pc' = next
    /\ call' = [fn |-> fn, args |-> args]
    /\ ret' = Outcome(val)
    /\ heap' = [h EXCEPT ![col] = val.v]
    /\ UNCHANGED <<CORNWELL_PARAMS, frame, sweep>>

\* line 44
SweepYield ==
    SweepAssign("sweep_yield", "sweep_separation", ColYield, "bolt_yield_safety_factor",
                <<sweep.c, MaxLoadApp, View(heap, ColPreload), sweep.a_ts, B_YS>>,
                bolt_yield_safety_factor(sweep.c, MaxLoadApp, View(heap, ColPreload),
                                         sweep.a_ts, B_YS),
                heap)

\* line 45
SweepSeparation ==
    SweepAssign("sweep_separation", "sweep_fatigue", ColSeparation,
                "joint_separation_safety_factor", <<sweep.c, MaxLoadApp, View(heap, ColPreload)>>,
                joint_separation_safety_factor(sweep.c, MaxLoadApp, View(heap, ColPreload)),
                heap)

SweepAssignFatigue(args, out) ==
    SweepAssign("sweep_fatigue", "sweep_minimum", ColFatigue, "fatigue_safety_factor", args,
                out[1], out[2])

\* lines 46-47
SweepFatigue ==
    SweepAssignFatigue(<<BoltD, sweep.c, MaxLoadApp, MinLoadApp, View(heap, ColPreload),
                         sweep.a_ts, S_UT, S_END, B_YS, FALSE>>,
                       fatigue_safety_factor(BoltD, sweep.c, MaxLoadApp, MinLoadApp,
                                             View(heap, ColPreload), sweep.a_ts,
                                             S_UT, S_END, B_YS, FALSE, heap))

\* line 48
SweepMinimum ==
    /\ pc = "sweep_minimum"
    /\ pc' = "sweep_best"
    /\ heap' = [heap EXCEPT ![ColMinimum] = RowMinimum(heap)]
    /\ call' = NoCall
    /\ ret' = NoRet
    /\ UNCHANGED <<CORNWELL_PARAMS, frame, sweep>>

\* line 50
SweepBest ==
    /\ pc = "sweep_best"
    /\ pc' = "plot_preload"
    /\ sweep' = [sweep EXCEPT !.best_preload = BestPreload(heap)]
    /\ UNCHANGED <<CORNWELL_PARAMS, heap, call, ret, frame>>

\* a caller of gen_preload_plot with a results array of its own, whose minimum
\* column may attain its maximum more than once
CallerResults ==
    \E minimum \in [1..NumSamples -> {FFromInt(1), Dec(12, 10), FFromInt(2)}] :
        /\ pc = "ready"
        /\ pc' = "plot_preload"
        /\ heap' = [id \in DOMAIN heap |->
                      IF id = ColPreload
                      THEN Arange(FFromInt(4456), Div(FFromInt(4456), FFromInt(NumSamples)))
                      ELSE IF id <= ColMinimum THEN minimum
                      ELSE heap[id]]
        /\ sweep' = [a_ts |-> BoltArea, c |-> PyNone, k_b |-> PyNone, best_preload |-> PyNone,
                     plot |-> PyNone]
        /\ UNCHANGED <<CORNWELL_PARAMS, call, ret, frame>>

\* the plot's own max_safety_factor and best_preload, from the results h
Plotted(at, next, h) ==
    /\ pc = at
    /\ pc' = next
    /\ heap' = h
    /\ sweep' = [sweep EXCEPT !.plot = [max_safety_factor |-> Amax(h[ColMinimum]),
                                        best_preload |-> BestPreload(h)]]
    /\ UNCHANGED <<CORNWELL_PARAMS, call, ret, frame>>

\* gen_preload_plot, lines 22-23
GenPreloadPlot == Plotted("plot_preload", "plot_proof", heap)

\* gen_proof_percentage_plot, lines 55-60: results[:, 0] is scaled in place
GenProofPercentagePlot ==
    Plotted("plot_proof", "plotted", ProofPercentage(heap, Mul(sweep.a_ts, S_P)))

\* the plots return, and sample_case with them: results and the locals are gone
SampleCaseReturn ==
    /\ pc = "plotted"
    /\ pc' = "ready"
    /\ heap' = [id \in DOMAIN heap |-> IF id <= ColMinimum THEN <<>> ELSE heap[id]]
    /\ sweep' = NoSweep
    /\ call' = NoCall
    /\ ret' = NoRet
    /\ UNCHANGED <<CORNWELL_PARAMS, frame>>

Next ==
    \/ Call_get_tensile_stress_area
    \/ Call_get_bolt_stiffness
    \/ Call_get_joint_constant
    \/ Call_segregate_loads
    \/ Call_bolt_yield_safety_factor
    \/ Call_joint_separation_safety_factor
    \/ Call_fatigue_safety_factor
    \/ Call_det_mean_stress_concentration_factor
    \/ Resume
    \/ SampleCaseStart
    \/ SweepYield
    \/ SweepSeparation
    \/ SweepFatigue
    \/ SweepMinimum
    \/ SweepBest
    \/ CallerResults
    \/ GenPreloadPlot
    \/ GenProofPercentagePlot
    \/ SampleCaseReturn

Spec == Init /\ [][Next]_vars

(***************************************************************************)
(* The properties                                                          *)
(***************************************************************************)
\* the call of fn has returned or raised, and the caller has not gone on
Returned(fn) == pc = "returned" /\ call.fn = fn

\* 2^-52, the distance from 1 to the next float
Epsilon == [neg |-> FALSE, m |-> <<1>>, e |-> -52]

\* x is within the relative distance tol of y
Within(x, y, tol) == FLe(FAbs(FSub(x, y)), FMul(tol, FAbs(y)))

\* C1, as the spec states it: for c in [0, 1], segregate_loads returns
\* bolt_load = c * load and member_load = (1 - c) * load, and bolt_load +
\* member_load equals load exactly.  Not so: with c = 0.3 and load = 3 the sum
\* is 2.9999999999999996.
C1_SumIsLoad ==
    Returned("segregate_loads") =>
        \A i \in 1..Extent(call.args[2], call.args[2]) :
            FAdd(Elem(ret.val[1], i), Elem(ret.val[2], i)) = Elem(call.args[2], i)

\* C1, amended: for c in [0, 1], segregate_loads returns bolt_load = c * load
\* and member_load = (1 - c) * load, each rounded to a float (1 - c too), and
\* bolt_load + member_load is within 2^-52 * |load| of load.
C1_SumNearLoad ==
    Returned("segregate_loads") =>
        \A i \in 1..Extent(call.args[2], call.args[2]) :
            /\ Elem(ret.val[1], i) = FMul(call.args[1], Elem(call.args[2], i))
            /\ Elem(ret.val[2], i) =
                   FMul(FSub(FFromInt(1), call.args[1]), Elem(call.args[2], i))
            /\ Within(FAdd(Elem(ret.val[1], i), Elem(ret.val[2], i)),
                      Elem(call.args[2], i), Epsilon)

\* segregate_loads(0.3, 3) has returned, and its loads do not add up to 3
C1_Inexact ==
    /\ Returned("segregate_loads")
    /\ call.args = <<Dec(3, 10), FFromInt(3)>>
    /\ FAdd(ret.val[1], ret.val[2]) # FFromInt(3)
    /\ FLt(FAdd(ret.val[1], ret.val[2]), FFromInt(3))

\* the polynomial of get_joint_constant, line 106
Cornwell(p_0, p_1, p_2, p_3, r) ==
    FAdd(FAdd(FAdd(FMul(p_3, FPow(r, 3)), FMul(p_2, FPow(r, 2))), FMul(p_1, r)), p_0)

\* j = d_b / l of the call of get_joint_constant
CalledJ == Div(call.args[1], call.args[2])

\* get_joint_constant has the coefficients of row k, and returns their polynomial
HasRow(k) ==
    /\ ~ret.raised
    /\ frame.p_0 = CORNWELL_PARAMS[k][ColP0]
    /\ frame.p_1 = CORNWELL_PARAMS[k][ColP1]
    /\ frame.p_2 = CORNWELL_PARAMS[k][ColP2]
    /\ frame.p_3 = CORNWELL_PARAMS[k][ColP3]
    /\ ret.val = Cornwell(CORNWELL_PARAMS[k][ColP0], CORNWELL_PARAMS[k][ColP1],
                          CORNWELL_PARAMS[k][ColP2], CORNWELL_PARAMS[k][ColP3],
                          FDiv(call.args[3], call.args[4]))

\* C2: when j = d_b / l is the j of a row of the table, get_joint_constant has
\* j_1 = j_2 = that j, its p_0 .. p_3 are the stored values of the row, not
\* interpolated, and it returns c = p_3*r^3 + p_2*r^2 + p_1*r + p_0 of them,
\* with r = E_m / E_b.
C2_Knot ==
    Returned("get_joint_constant") =>
        \A k \in 1..Len(CORNWELL_PARAMS) :
            CalledJ = CORNWELL_PARAMS[k][ColJ] =>
                /\ HasRow(k)
                /\ frame.j_1 = CORNWELL_PARAMS[k][ColJ]
                /\ frame.j_2 = CORNWELL_PARAMS[k][ColJ]
                /\ frame.r = FDiv(call.args[3], call.args[4])

\* get_joint_constant(1.25, 1, 15e6, 30e6) has returned: j is the j of row 11
C2_AtKnot ==
    /\ Returned("get_joint_constant")
    /\ call.args = <<Dec(125, 100), FFromInt(1), FFromInt(15000000), FFromInt(30000000)>>
    /\ CalledJ = CORNWELL_PARAMS[11][ColJ]
    /\ ~ret.raised
    /\ frame.p_0 = Dec(7667, 10000)

\* k_f * (sigma_mean + sigma_alt) of the call of det_mean_stress_concentration_factor
PeakStress == FMul(call.args[4], FAdd(call.args[1], call.args[2]))

\* C3: det_mean_stress_concentration_factor returns k_f when k_f * (sigma_mean
\* + sigma_alt) < s_y, the value of (s_y - k_f * sigma_alt) / sigma_mean when it
\* is > s_y, and 0 when it equals s_y: equality is in neither other branch.
C3_Branches ==
    Returned("det_mean_stress_concentration_factor") =>
        /\ FLt(PeakStress, call.args[3]) => ret = Outcome(call.args[4])
        /\ FGt(PeakStress, call.args[3]) =>
               ret = Outcome(Div(FSub(call.args[3], FMul(call.args[4], call.args[2])),
                                 call.args[1]))
        /\ PeakStress = call.args[3] => ret = Outcome(FZero) /\ ret.val # call.args[4]

\* det_mean_stress_concentration_factor(1, 1, 4, 2) has returned 0: 2 * (1 + 1) = 4
C3_Equality ==
    /\ Returned("det_mean_stress_concentration_factor")
    /\ call.args = <<FFromInt(1), FFromInt(1), FFromInt(4), FFromInt(2)>>
    /\ PeakStress = call.args[3]
    /\ ret = Outcome(FZero)

\* C4, as the spec states it: when j = d_b / l is below 0.1 or above 2.0 (l >
\* 0), get_joint_constant raises nothing and returns c of the coefficients of
\* the boundary row, j = 0.1 or j = 2.0.  The code raises IndexError for j =
\* 0.05 and for j = 2.5.
C4_Clamped ==
    Returned("get_joint_constant") =>
        /\ FLt(CalledJ, Dec(1, 10)) => HasRow(1)
        /\ FGt(CalledJ, FFromInt(2)) => HasRow(Len(CORNWELL_PARAMS))

\* C5, as the spec states it: get_tensile_stress_area with both pitch and
\* num_threads, or with neither, fails with InvalidThreadSpec.  The code
\* returns an area when it has both.
C5_ExactlyOne ==
    Returned("get_tensile_stress_area") =>
        ((call.args[3] = PyNone) = (call.args[4] = PyNone) =>
             ret = [raised |-> TRUE, val |-> "InvalidThreadSpec"])

\* 2^-40, the relative distance allowed between a float result and the same
\* real expression evaluated in another order
Tolerance == [neg |-> FALSE, m |-> <<1>>, e |-> -40]

\* the formula of C6 for n_f, evaluated in floats as it is written there
FatigueFormula(c, max_load, min_load, preload, a_ts, s_ut, s_end, s_y, k_f) ==
    LET sigma_mean == FDiv(FAdd(FDiv(FMul(c, FAdd(max_load, min_load)), FFromInt(2)),
                                preload), a_ts)
        sigma_alt == FDiv(FMul(c, FSub(max_load, min_load)), FMul(FFromInt(2), a_ts))
        sigma_preload == FDiv(preload, a_ts)
        k_fm == det_mean_stress_concentration_factor(sigma_mean, sigma_alt, s_y, k_f, FALSE)
    IN  FDiv(FMul(s_end, FSub(s_ut, FMul(k_fm, sigma_preload))),
             FAdd(FMul(s_end, FSub(FMul(k_fm, sigma_mean), FMul(k_fm, sigma_preload))),
                  FMul(FMul(s_ut, k_f), sigma_alt)))

\* the arguments of the call that are numbers or arrays: all but the flag ISO
Operands ==
    IF call.fn = "fatigue_safety_factor" THEN 1..9 ELSE 1..Len(call.args)

\* the arguments of the call are all scalars
ScalarCall == \A a \in Operands : ~IsArray(call.args[a])

\* C6: for scalar inputs, fatigue_safety_factor returns n_f = s_end * (s_ut -
\* k_fm * sigma_preload) / (s_end * (k_fm * sigma_mean - k_fm * sigma_preload) +
\* s_ut * k_f * sigma_alt), with sigma_mean = (c * (max_load + min_load) / 2 +
\* preload) / a_ts, sigma_alt = c * (max_load - min_load) / (2 * a_ts),
\* sigma_preload = preload / a_ts, k_f = 5.7 + 0.02682 * d for ISO threads and
\* 5.7 + 0.6812 * d otherwise, and k_fm of the uncorrected sigma_mean and
\* sigma_alt: the float it returns is within 2^-40 of the formula evaluated as
\* written (the code adds and halves the two bolt loads instead).
C6_Goodman ==
    Returned("fatigue_safety_factor") /\ ScalarCall /\ ~ret.raised =>
        Within(ret.val,
               FatigueFormula(call.args[2], call.args[3], call.args[4], call.args[5],
                              call.args[6], call.args[7], call.args[8], call.args[9],
                              FAdd(Dec(57, 10),
                                   FMul(IF call.args[10] THEN Dec(2682, 100000)
                                        ELSE Dec(6812, 10000), call.args[1]))),
               Tolerance)

\* the scalar call of test_safety_factors has returned: a 5/16 bolt that is not
\* ISO, c = 0.09056, loads from 0 to 1000, preload 4011
C6_Scalar ==
    /\ Returned("fatigue_safety_factor")
    /\ call.args = <<BoltD, Dec(9056, 100000), FFromInt(1000), FFromInt(0), FFromInt(4011),
                     BoltArea, S_UT, S_END, B_YS, FALSE>>
    /\ ~ret.raised
    /\ FGt(ret.val, FFromInt(1))

\* what fatigue_safety_factor gives for the elements i of the arguments
ElementCall(i) ==
    fatigue_safety_factor(call.args[1], call.args[2], Elem(call.args[3], i),
                          Elem(call.args[4], i), Elem(call.args[5], i), call.args[6],
                          call.args[7], call.args[8], call.args[9], call.args[10], heap)[1]

\* the call of fatigue_safety_factor had an array for max_load or for preload
ArrayCall ==
    call.fn = "fatigue_safety_factor" /\ (IsArray(call.args[3]) \/ IsArray(call.args[5]))

\* C7, as the spec states it: when preload or the loads are arrays of length n,
\* fatigue_safety_factor returns an array of length n whose element i equals the
\* result of the scalar call with the elements i of the arrays.  Not so with no
\* external load: the scalar call raises ZeroDivisionError at line 205 and has
\* no result, and the array call returns inf.
C7_Elementwise ==
    ArrayCall =>
        /\ ~ret.raised
        /\ IsArray(ret.val)
        /\ Len(ret.val.v) = Extent(call.args[3], call.args[5])
        /\ \A i \in 1..Len(ret.val.v) : ret.val.v[i] = ElementCall(i)

\* C7 where the scalar calls return: there element i of the array is what the
\* scalar call returns, k_fm being taken for each element from its own
\* sigma_mean and sigma_alt; and where a scalar call raises ZeroDivisionError
\* the element is numpy's inf or nan.
C7_WhereReturned ==
    ArrayCall =>
        /\ ~ret.raised
        /\ IsArray(ret.val)
        /\ Len(ret.val.v) = Extent(call.args[3], call.args[5])
        /\ \A i \in 1..Len(ret.val.v) :
               IF ElementCall(i) = Raise("ZeroDivisionError")
               THEN ret.val.v[i] = NonFinite
               ELSE ret.val.v[i] = ElementCall(i)

\* p is the preload of the first row of results whose minimum is the greatest
FirstBest(p) ==
    \E k \in 1..Len(heap[ColMinimum]) :
        /\ heap[ColPreload][k] = p
        /\ \A n \in 1..Len(heap[ColMinimum]) : FLe(heap[ColMinimum][n], heap[ColMinimum][k])
        /\ \A n \in 1..(k - 1) : FLt(heap[ColMinimum][n], heap[ColMinimum][k])

\* C8: in the sweep, column 4 of each row of results is the minimum of its
\* yield, separation and fatigue factors, and best_preload, in sample_case and
\* in the plots, is the preload of the first row where column 4 is greatest.
C8_Sweep ==
    /\ pc \in {"sweep_best", "plot_preload", "plot_proof", "plotted"} =>
           \A i \in 1..Len(heap[ColMinimum]) :
               /\ \E col \in {ColYield, ColSeparation, ColFatigue} :
                      heap[ColMinimum][i] = heap[col][i]
               /\ \A col \in {ColYield, ColSeparation, ColFatigue} :
                      FLe(heap[ColMinimum][i], heap[col][i])
    /\ pc = "plot_preload" /\ sweep.best_preload # PyNone => FirstBest(sweep.best_preload)
    /\ pc \in {"plot_proof", "plotted"} =>
           /\ FirstBest(sweep.plot.best_preload)
           /\ \E k \in 1..Len(heap[ColMinimum]) :
                  sweep.plot.max_safety_factor = heap[ColMinimum][k]
           /\ \A k \in 1..Len(heap[ColMinimum]) :
                  FLe(heap[ColMinimum][k], sweep.plot.max_safety_factor)

\* gen_preload_plot has taken the best preload of results whose greatest
\* minimum is in the rows 2 and 3: it is the preload of row 2
C8_Tie ==
    /\ pc = "plot_proof"
    /\ FLt(heap[ColMinimum][1], heap[ColMinimum][2])
    /\ heap[ColMinimum][3] = heap[ColMinimum][2]
    /\ sweep.plot.best_preload = heap[ColPreload][2]

\* C9: the functions of the toolkit leave CORNWELL_PARAMS and every array their
\* caller passes as they were: after a call the table is what the module
\* built, and each array argument holds the elements it was passed with.
C9_Frame ==
    call # NoCall =>
        /\ CORNWELL_PARAMS = CornwellTable
        /\ \A a \in Operands :
               IsArray(call.args[a]) => heap[call.args[a].id] = call.args[a].v

\* fatigue_safety_factor has returned an array for the caller's arrays of loads
\* and preloads, after its three assignments in place
C9_ArraysPassed ==
    /\ Returned("fatigue_safety_factor")
    /\ call.args[3] = View(heap, CallerLoads)
    /\ call.args[5] = View(heap, CallerPreloads)
    /\ ~ret.raised
    /\ IsArray(ret.val)
    /\ ret.val.id = 0

\* C10: get_joint_constant takes for j_2 the j of the first row with j >= its
\* own j - 0.01; when that is above 1.75 it takes j_1 = j_2, so that nothing is
\* interpolated; and every j with 1.76 < j <= 2.01 has the stored coefficients
\* of the row j = 2.0 (1.76 and 2.01 read as floats, as the 0.01 and 1.75 of the
\* source are: the float 1.76 itself has j - 0.01 = 1.75 and the row 1.75).
C10_Tail ==
    Returned("get_joint_constant") =>
        /\ ~ret.raised =>
               /\ \E k \in 1..Len(CORNWELL_PARAMS) :
                      /\ frame.j_2 = CORNWELL_PARAMS[k][ColJ]
                      /\ FGe(CORNWELL_PARAMS[k][ColJ], FSub(CalledJ, Dec(1, 100)))
                      /\ \A n \in 1..(k - 1) :
                             FLt(CORNWELL_PARAMS[n][ColJ], FSub(CalledJ, Dec(1, 100)))
               /\ FGt(frame.j_2, Dec(175, 100)) => frame.j_1 = frame.j_2
        /\ FGt(CalledJ, Dec(176, 100)) /\ FLe(CalledJ, Dec(201, 100)) =>
               /\ HasRow(Len(CORNWELL_PARAMS))
               /\ frame.j_2 = FFromInt(2)
               /\ frame.j_1 = FFromInt(2)

\* get_joint_constant has returned for the first float above 1.76, with the
\* coefficients of the last row
C10_JustAbove ==
    /\ Returned("get_joint_constant")
    /\ call.args[1] = NextUp(Dec(176, 100))
    /\ call.args[2] = FFromInt(1)
    /\ FGt(CalledJ, Dec(176, 100))
    /\ ~ret.raised
    /\ frame.j_1 = FFromInt(2)
    /\ frame.p_0 = Dec(7175, 10000)

\* x is u, v, or between them
Between(x, u, v) == (FLe(u, x) /\ FLe(x, v)) \/ (FLe(v, x) /\ FLe(x, u))

\* the coefficient p of column col is the stored one of row a when b = a, and
\* between the stored ones of the rows a and b otherwise
Coefficient(p, col, a, b) ==
    IF a = b THEN p = CORNWELL_PARAMS[a][col]
    ELSE Between(p, CORNWELL_PARAMS[a][col], CORNWELL_PARAMS[b][col])

\* get_joint_constant has returned with j_1 and j_2 the j of one row or of two
\* adjacent rows, j strictly between them when they are two, and each of its
\* coefficients the stored one or between the two stored ones
Bracketed ==
    /\ ~ret.raised
    /\ FLe(frame.j_1, frame.j_2)
    /\ \E a \in 1..Len(CORNWELL_PARAMS) : \E b \in {a, a + 1} \cap 1..Len(CORNWELL_PARAMS) :
           /\ frame.j_1 = CORNWELL_PARAMS[a][ColJ]
           /\ frame.j_2 = CORNWELL_PARAMS[b][ColJ]
           /\ a # b => FLt(frame.j_1, frame.j) /\ FLt(frame.j, frame.j_2)
           /\ Coefficient(frame.p_0, ColP0, a, b)
           /\ Coefficient(frame.p_1, ColP1, a, b)
           /\ Coefficient(frame.p_2, ColP2, a, b)
           /\ Coefficient(frame.p_3, ColP3, a, b)

\* j = d_b / l of the call is in [0.09, 2.01]
InWindow == FGe(CalledJ, Dec(9, 100)) /\ FLe(CalledJ, Dec(201, 100))

\* C11, as the spec states it: for every j in [0.09, 2.01] the rows that
\* get_joint_constant selects have j_1 <= j_2 and are one row or two adjacent
\* rows; when two, j_1 < j < j_2 and each interpolated coefficient is between
\* the stored values of the two rows; when one, each coefficient is the stored
\* value of the row.  Not so at j = 0.09, where 0.09 + 0.01 is the float below
\* 0.1: no row has j <= j + 0.01 and line 85 raises IndexError.
C11_Brackets ==
    Returned("get_joint_constant") /\ InWindow => Bracketed

\* C11 where get_joint_constant returns: of the j in [0.09, 2.01] (0.09 and 2.01
\* read as floats) only 0.09 itself raises, IndexError, and for every other the
\* rows and the coefficients are as C11 says.
C11_WhereReturned ==
    Returned("get_joint_constant") /\ InWindow =>
        IF CalledJ = Dec(9, 100) THEN ret = [raised |-> TRUE, val |-> "IndexError"]
        ELSE Bracketed

====
